---- MODULE Spec2Model ----
(***************************************************************************)
(* Quantum Doodle: the stroke-to-circuit recognizer, the circuit           *)
(* validator and the state-vector simulator.                               *)
(*                                                                         *)
(* Amplitudes are modelled exactly: a real number is (a + b*sqrt(2))/2^e   *)
(* with integers a, b and e >= 0, kept in normal form, so that equality of *)
(* records is equality of numbers.  The rounding of IEEE doubles is not    *)
(* part of the model.                                                      *)
(***************************************************************************)
EXTENDS Integers, Sequences, FiniteSets, TLC

VARIABLES
  numQubits,      \* SimpleQuantumSimulator.numQubits
  stateVector,    \* SimpleQuantumSimulator.stateVector, indexed from 0
  lastOp,         \* the last method called on the simulator
  prevVector,     \* stateVector before the last call
  twice,          \* the last two calls were the same method with the same arguments
  prev2Vector,    \* if twice: stateVector before the first of the two (else prevVector)
  vCircuit,       \* the circuit handed to validateCircuit
  vCalled,        \* validateCircuit has returned
  vResult,        \* what it returned
  circuit,        \* the circuit prop of QuantumSimulator (Home's state): None is null
  uiStateVector,  \* QuantumSimulator's React state stateVector
  probabilities,  \* QuantumSimulator's React state probabilities
  error,          \* QuantumSimulator's React state error is set
  effectPending,  \* the effect on [circuit] has still to run
  strokes,        \* the Stroke[] the caller hands to recognizeCircuit
  recCalled,      \* recognizeCircuit(strokes) has returned
  recTwice,       \* ... and has returned a second time
  recOut,         \* what the last call returned (None before the first)
  recFirst,       \* what the first call returned
  currentTool,        \* CanvasManager's state currentTool
  drawingMode,        \* CanvasManager's state drawingMode
  isDrawing,          \* CanvasManager's state isDrawing
  currentStroke,      \* CanvasManager's state currentStroke: None is null
  canvasStrokes,      \* CanvasManager's state strokes (the accepted wires)
  canvasGates,        \* CanvasManager's state gates, in the order of the clicks
  wireSnapPositions,  \* CanvasManager's state wireSnapPositions
  pendingNotify,      \* the setTimeout callbacks not yet run, oldest first:
                      \* each holds the combinedStrokes its closure will pass
  circuitStrokes,     \* the stroke list the page's circuit was recognized from
  returned,           \* what the caller of getStateVector reads in the array it got
  returnedShared,     \* that array is the array this.stateVector refers to
  expected,           \* what the array held when it was returned, with the
                      \* caller's own writes applied
  laterCalls,         \* the gate methods called since getStateVector returned
  snapWires,          \* the wire positions a snapping call works on
  snapY,              \* the y handed to the snapping call
  snapOut,            \* what snapToNearestWire(y) returned (None before the call)
  targetOut           \* the targetQubit the recognizer's loop ended with

simVars == <<numQubits, stateVector, lastOp, prevVector, twice, prev2Vector>>
valVars == <<vCircuit, vCalled, vResult>>
runVars == <<circuit, uiStateVector, probabilities, error, effectPending>>

recVars == <<strokes, recCalled, recTwice, recOut, recFirst>>

canvasVars ==
  <<currentTool, drawingMode, isDrawing, currentStroke,
    canvasStrokes, canvasGates, wireSnapPositions, pendingNotify, circuitStrokes>>

snapVars == <<returned, returnedShared, expected, laterCalls>>

wireVars == <<snapWires, snapY, snapOut, targetOut>>

vars == <<simVars, valVars, runVars, recVars, canvasVars, snapVars, wireVars>>

(***************************************************************************)
(* Bounds of the model.                                                    *)
(***************************************************************************)
MaxQubits == 2
MaxValGates == 2
MaxRunGates == 2
MaxStrokes == 4
MaxWires == 3
MaxCanvasGates == 2
MaxWirePoints == 2
MaxPending == 1
MaxLaterCalls == 2
MaxPageStrokes == 3
MaxSnapWires == 2

(***************************************************************************)
(* Exact numbers (a + b*sqrt(2)) / 2^e.                                    *)
(***************************************************************************)
RECURSIVE Pow2(_)
Pow2(n) == IF n = 0 THEN 1 ELSE 2 * Pow2(n - 1)

RECURSIVE Norm(_, _, _)
Norm(a, b, e) ==
  IF e > 0 /\ a % 2 = 0 /\ b % 2 = 0
  THEN Norm(a \div 2, b \div 2, e - 1)
  ELSE [a |-> a, b |-> b, e |-> e]

Zero == [a |-> 0, b |-> 0, e |-> 0]
One == [a |-> 1, b |-> 0, e |-> 0]

MaxE(x, y) == IF x.e >= y.e THEN x.e ELSE y.e

Add(x, y) ==
  LET m == MaxE(x, y)
      sx == Pow2(m - x.e)
      sy == Pow2(m - y.e)
  IN Norm(x.a * sx + y.a * sy, x.b * sx + y.b * sy, m)

Neg(x) == [a |-> 0 - x.a, b |-> 0 - x.b, e |-> x.e]

Sub(x, y) == Add(x, Neg(y))

Mul(x, y) ==
  Norm(x.a * y.a + 2 * x.b * y.b, x.a * y.b + x.b * y.a, x.e + y.e)

\* const factor = 1 / Math.sqrt(2), that is sqrt(2)/2
factor == [a |-> 0, b |-> 1, e |-> 1]

(***************************************************************************)
(* Complex amplitudes and vectors.                                         *)
(***************************************************************************)
Complex(re, im) == [re |-> re, im |-> im]

\* new Array(len).fill(null).map(() => ({ re: 0, im: 0 }))
ZeroVector(len) == [i \in 0..(len - 1) |-> Complex(Zero, Zero)]

VecLen(v) == Cardinality(DOMAIN v)

\* (i >> qubit) & 1
BitValue(i, qubit) == (i \div Pow2(qubit)) % 2

\* i ^ (1 << qubit)
FlipBit(i, qubit) ==
  IF BitValue(i, qubit) = 0 THEN i + Pow2(qubit) ELSE i - Pow2(qubit)

\* Writing a field of newStateVector[idx] throws a TypeError when idx is not
\* an index of the array.  A loop result is [ok, v]: ok = FALSE after a throw.
Result(ok, v) == [ok |-> ok, v |-> v]

(***************************************************************************)
(* SimpleQuantumSimulator                                                  *)
(***************************************************************************)
\* the constructor without the assignment to index 0
NewStateVector_Unset(n) == ZeroVector(Pow2(n))

\* constructor(numQubits)
NewStateVector(n) ==
  [ZeroVector(Pow2(n)) EXCEPT ![0] = Complex(One, Zero)]

\* a variant whose bit-1 branch adds to targetIndex2
HadamardSign1_Adds(new, old, i, t2) ==
  [new EXCEPT ![t2] = Complex(Add(new[t2].re, Mul(factor, old[i].re)),
                              Add(new[t2].im, Mul(factor, old[i].im)))]

\* the else branch: newStateVector[targetIndex2] -= factor * stateVector[i]
HadamardSign1(new, old, i, t2) ==
  [new EXCEPT ![t2] = Complex(Sub(new[t2].re, Mul(factor, old[i].re)),
                              Sub(new[t2].im, Mul(factor, old[i].im)))]

\* a variant whose bit-0 branch subtracts from targetIndex2
HadamardSign0_Subtracts(new, old, i, t2) ==
  [new EXCEPT ![t2] = Complex(Sub(new[t2].re, Mul(factor, old[i].re)),
                              Sub(new[t2].im, Mul(factor, old[i].im)))]

\* the if branch: newStateVector[targetIndex2] += factor * stateVector[i]
HadamardSign0(new, old, i, t2) ==
  [new EXCEPT ![t2] = Complex(Add(new[t2].re, Mul(factor, old[i].re)),
                              Add(new[t2].im, Mul(factor, old[i].im)))]

\* one iteration of the loop of applyHadamard
HadamardBody(new, old, i, qubit) ==
  LET t1 == i
      t2 == FlipBit(i, qubit)
      n1 == [new EXCEPT ![t1] = Complex(Add(new[t1].re, Mul(factor, old[i].re)),
                                        Add(new[t1].im, Mul(factor, old[i].im)))]
  IN IF t2 \notin DOMAIN new
     THEN Result(FALSE, n1)
     ELSE IF BitValue(i, qubit) = 0
          THEN Result(TRUE, HadamardSign0(n1, old, i, t2))
          ELSE Result(TRUE, HadamardSign1(n1, old, i, t2))

RECURSIVE HadamardLoop(_, _, _, _)
HadamardLoop(new, old, i, qubit) ==
  IF i >= VecLen(old) THEN Result(TRUE, new)
  ELSE LET r == HadamardBody(new, old, i, qubit)
       IN IF r.ok THEN HadamardLoop(r.v, old, i + 1, qubit)
          ELSE Result(FALSE, old)

\* applyHadamard(qubit): the new stateVector, or a throw that leaves it alone
applyHadamard(sv, qubit) ==
  HadamardLoop(ZeroVector(VecLen(sv)), sv, 0, qubit)

\* a variant that sets the qubit's bit, i | (1 << qubit), instead of flipping it
PauliXTarget_SetBit(i, qubit) ==
  IF BitValue(i, qubit) = 0 THEN i + Pow2(qubit) ELSE i

\* const targetIndex = i ^ (1 << qubit)
PauliXTarget(i, qubit) == FlipBit(i, qubit)

RECURSIVE PauliXLoop(_, _, _, _)
PauliXLoop(new, old, i, qubit) ==
  IF i >= VecLen(old) THEN Result(TRUE, new)
  ELSE LET t == PauliXTarget(i, qubit)
       IN IF t \notin DOMAIN new THEN Result(FALSE, old)
          ELSE PauliXLoop([new EXCEPT ![t] = Complex(old[i].re, old[i].im)],
                          old, i + 1, qubit)

\* applyPauliX(qubit)
applyPauliX(sv, qubit) ==
  PauliXLoop(ZeroVector(VecLen(sv)), sv, 0, qubit)

\* a variant that negates the amplitudes whose bit is 0
PauliZEntry_NegatesBitZero(c, i, qubit) ==
  IF BitValue(i, qubit) = 0 THEN Complex(Neg(c.re), Neg(c.im)) ELSE c

\* one iteration of the loop of applyPauliZ
PauliZEntry(c, i, qubit) ==
  IF BitValue(i, qubit) = 1 THEN Complex(Neg(c.re), Neg(c.im)) ELSE c

\* applyPauliZ(qubit): in place, no index is computed, nothing can throw
applyPauliZ(sv, qubit) ==
  Result(TRUE, [i \in DOMAIN sv |-> PauliZEntry(sv[i], i, qubit)])

\* a variant that flips the control's bit instead of the target's
CnotTarget_FlipsControl(i, control, target) ==
  IF BitValue(i, control) = 1 THEN FlipBit(i, control) ELSE i

\* controlBit === 1 ? i ^ (1 << target) : i
CnotTarget(i, control, target) ==
  IF BitValue(i, control) = 1 THEN FlipBit(i, target) ELSE i

RECURSIVE CnotLoop(_, _, _, _, _)
CnotLoop(new, old, i, control, target) ==
  IF i >= VecLen(old) THEN Result(TRUE, new)
  ELSE LET t == CnotTarget(i, control, target)
       IN IF t \notin DOMAIN new THEN Result(FALSE, old)
          ELSE CnotLoop([new EXCEPT ![t] = Complex(old[i].re, old[i].im)],
                        old, i + 1, control, target)

\* applyCNOT(control, target)
applyCNOT(sv, control, target) ==
  CnotLoop(ZeroVector(VecLen(sv)), sv, 0, control, target)

\* the record of a call: the method, its qubit (target) and its control
NoOp == [name |-> "new", q |-> 0, c |-> 0]
Op(name, q, c) == [name |-> name, q |-> q, c |-> c]

\* getProbabilities()
Probability(c) == Add(Mul(c.re, c.re), Mul(c.im, c.im))

getProbabilities(sv) == [i \in DOMAIN sv |-> Probability(sv[i])]

RECURSIVE SumUpTo(_, _)
SumUpTo(p, n) == IF n < 0 THEN Zero ELSE Add(p[n], SumUpTo(p, n - 1))

SumProbabilities(sv) == SumUpTo(getProbabilities(sv), VecLen(sv) - 1)

(***************************************************************************)
(* Circuits: QuantumGate and QuantumCircuit of the recognizer.  The        *)
(* optional field controls is None when absent and Some(array) otherwise.  *)
(***************************************************************************)
None == << >>
Some(x) == <<x>>
IsSome(o) == Len(o) > 0
Get(o) == o[1]

Point(x, y) == [x |-> x, y |-> y]

Gate(type, targets, controls, position) ==
  [type |-> type, targets |-> targets, controls |-> controls,
   position |-> position]

Circuit(qubits, depth, gates) ==
  [qubits |-> qubits, depth |-> depth, gates |-> gates]

SeqsUpTo(S, n) == UNION {[1..k -> S] : k \in 0..n}

(***************************************************************************)
(* CircuitRecognizer.validateCircuit                                       *)
(***************************************************************************)
\* a variant with the off-by-one test target > circuit.qubits
TargetOutOfRange_OffByOne(target, qubits) == target < 0 \/ target > qubits

\* target < 0 || target >= circuit.qubits
TargetOutOfRange(target, qubits) == target < 0 \/ target >= qubits

\* control < 0 || control >= circuit.qubits
ControlOutOfRange(control, qubits) == control < 0 \/ control >= qubits

\* for (const target of gate.targets): FALSE at the first one out of range
RECURSIVE TargetsLoop(_, _, _)
TargetsLoop(targets, i, qubits) ==
  IF i > Len(targets) THEN TRUE
  ELSE IF TargetOutOfRange(targets[i], qubits) THEN FALSE
       ELSE TargetsLoop(targets, i + 1, qubits)

RECURSIVE ControlsLoop(_, _, _)
ControlsLoop(controls, i, qubits) ==
  IF i > Len(controls) THEN TRUE
  ELSE IF ControlOutOfRange(controls[i], qubits) THEN FALSE
       ELSE ControlsLoop(controls, i + 1, qubits)

\* for (const gate of circuit.gates)
RECURSIVE GatesLoop(_, _, _)
GatesLoop(gates, i, qubits) ==
  IF i > Len(gates) THEN TRUE
  ELSE IF ~TargetsLoop(gates[i].targets, 1, qubits) THEN FALSE
       ELSE IF IsSome(gates[i].controls)
               /\ ~ControlsLoop(Get(gates[i].controls), 1, qubits)
            THEN FALSE
            ELSE GatesLoop(gates, i + 1, qubits)

validateCircuit(c) ==
  IF c.qubits = 0 THEN TRUE
  ELSE GatesLoop(c.gates, 1, c.qubits)

(***************************************************************************)
(* CircuitRecognizer.recognizeCircuit                                      *)
(***************************************************************************)
\* private gridSize: number = 40
gridSize == 40
\* private snapThreshold: number = 20
snapThreshold == 20

Stroke(points, tool, color, width) ==
  [points |-> points, tool |-> tool, color |-> color, width |-> width]

Abs(n) == IF n < 0 THEN 0 - n ELSE n

\* Math.round(x / g) for integers x >= 0, g > 0: halves round up
Round(x, g) == (2 * x + g) \div (2 * g)

\* Math.floor in the place of Math.ceil
Ceil_Floor(x, g) == x \div g

\* Math.ceil(x / g) for integers x >= 0, g > 0
Ceil(x, g) == (x + g - 1) \div g

Includes(seq, v) == \E i \in DOMAIN seq : seq[i] = v

\* wireStrokes.forEach: push the first point's y unless it is already there
RECURSIVE WirePositionsLoop(_, _, _)
WirePositionsLoop(wireStrokes, i, acc) ==
  IF i > Len(wireStrokes) THEN acc
  ELSE LET wire == wireStrokes[i]
       IN IF Len(wire.points) > 0 /\ ~Includes(acc, wire.points[1].y)
          THEN WirePositionsLoop(wireStrokes, i + 1, Append(acc, wire.points[1].y))
          ELSE WirePositionsLoop(wireStrokes, i + 1, acc)

RECURSIVE InsertAsc(_, _)
InsertAsc(sorted, v) ==
  IF sorted = << >> THEN <<v>>
  ELSE IF sorted[Len(sorted)] <= v THEN Append(sorted, v)
       ELSE Append(InsertAsc(SubSeq(sorted, 1, Len(sorted) - 1), v),
                   sorted[Len(sorted)])

\* a variant that leaves the positions in the order the wires were drawn
SortAsc_NoSort(seq) == seq

\* wirePositions.sort((a, b) => a - b)
RECURSIVE SortAsc(_)
SortAsc(seq) ==
  IF seq = << >> THEN << >>
  ELSE InsertAsc(SortAsc(SubSeq(seq, 1, Len(seq) - 1)), seq[Len(seq)])

IsWire(stroke) == stroke.tool = "wire"
IsNotWire(stroke) == stroke.tool # "wire"

WirePositions(strokeList) ==
  SortAsc(WirePositionsLoop(SelectSeq(strokeList, IsWire), 1, << >>))

\* a variant with distance <= this.snapThreshold
WithinThreshold_Inclusive(distance) == distance <= snapThreshold

\* distance < this.snapThreshold
WithinThreshold(distance) == distance < snapThreshold

\* wirePositions.forEach((wireY, index) => ...): targetQubit, indexed from 0,
\* is -1 exactly as long as minDistance is Infinity
RECURSIVE NearestWireLoop(_, _, _, _, _)
NearestWireLoop(wirePositions, i, y, targetQubit, minDistance) ==
  IF i > Len(wirePositions) THEN targetQubit
  ELSE LET distance == Abs(y - wirePositions[i])
       IN IF (targetQubit = 0 - 1 \/ distance < minDistance)
             /\ WithinThreshold(distance)
          THEN NearestWireLoop(wirePositions, i + 1, y, i - 1, distance)
          ELSE NearestWireLoop(wirePositions, i + 1, y, targetQubit, minDistance)

\* a variant that counts the wires from 1
TargetQubit_OneBased(wirePositions, point) ==
  LET index == NearestWireLoop(wirePositions, 1, point.y, 0 - 1, 0)
  IN IF index = 0 - 1 THEN index ELSE index + 1

TargetQubit(wirePositions, point) ==
  NearestWireLoop(wirePositions, 1, point.y, 0 - 1, 0)

\* gateStrokes.forEach: acc.gates and acc.cnotControls
RECURSIVE GateStrokesLoop(_, _, _, _)
GateStrokesLoop(gateStrokes, i, wirePositions, acc) ==
  IF i > Len(gateStrokes) THEN acc
  ELSE LET stroke == gateStrokes[i]
       IN IF Len(stroke.points) = 0
          THEN GateStrokesLoop(gateStrokes, i + 1, wirePositions, acc)
          ELSE LET point == stroke.points[1]
                   targetQubit == TargetQubit(wirePositions, point)
                   gate == Gate(stroke.tool, <<targetQubit>>, None,
                                Point(point.x, point.y))
               IN IF targetQubit = 0 - 1
                  THEN GateStrokesLoop(gateStrokes, i + 1, wirePositions, acc)
                  ELSE IF stroke.tool = "cnot"
                       THEN GateStrokesLoop(gateStrokes, i + 1, wirePositions,
                              [acc EXCEPT !.cnotControls = Append(@, gate)])
                       ELSE GateStrokesLoop(gateStrokes, i + 1, wirePositions,
                              [acc EXCEPT !.gates = Append(@, gate)])

\* Math.round(cnot.position.x / this.gridSize) * this.gridSize
ColumnKey(x) == Round(x, gridSize) * gridSize

\* columnCnots.sort((a, b) => a.targets[0] - b.targets[0]) is stable
RECURSIVE InsertByTarget(_, _)
InsertByTarget(sorted, g) ==
  IF sorted = << >> THEN <<g>>
  ELSE IF sorted[Len(sorted)].targets[1] <= g.targets[1] THEN Append(sorted, g)
       ELSE Append(InsertByTarget(SubSeq(sorted, 1, Len(sorted) - 1), g),
                   sorted[Len(sorted)])

\* the column left in the order of the strokes
SortByTarget_NoSort(col) == col

RECURSIVE SortByTarget(_)
SortByTarget(col) ==
  IF col = << >> THEN << >>
  ELSE InsertByTarget(SortByTarget(SubSeq(col, 1, Len(col) - 1)), col[Len(col)])

\* the cnot gate of a pair on different qubits
CnotGate(control, target) ==
  Gate("cnot", <<target.targets[1]>>, Some(<<control.targets[1]>>),
       target.position)

\* a variant in which a pair on one qubit is dropped
RECURSIVE PairLoop_DropsSameWire(_, _, _)
PairLoop_DropsSameWire(columnCnots, i, gates) ==
  IF ~(i < Len(columnCnots)) THEN gates
  ELSE LET control == columnCnots[i]
           target == columnCnots[i + 1]
       IN IF control.targets[1] # target.targets[1]
          THEN PairLoop_DropsSameWire(columnCnots, i + 2,
                                      Append(gates, CnotGate(control, target)))
          ELSE PairLoop_DropsSameWire(columnCnots, i + 2, gates)

\* a variant in which every pair becomes a controlled gate
RECURSIVE PairLoop_AlwaysPairs(_, _, _)
PairLoop_AlwaysPairs(columnCnots, i, gates) ==
  IF ~(i < Len(columnCnots)) THEN gates
  ELSE PairLoop_AlwaysPairs(columnCnots, i + 2,
         Append(gates, CnotGate(columnCnots[i], columnCnots[i + 1])))

\* for (let i = 0; i < columnCnots.length - 1; i += 2), i counted from 1
RECURSIVE PairLoop(_, _, _)
PairLoop(columnCnots, i, gates) ==
  IF ~(i < Len(columnCnots)) THEN gates
  ELSE LET control == columnCnots[i]
           target == columnCnots[i + 1]
       IN IF control.targets[1] # target.targets[1]
          THEN PairLoop(columnCnots, i + 2, Append(gates, CnotGate(control, target)))
          ELSE PairLoop(columnCnots, i + 2, Append(Append(gates, control), target))

\* a variant without the entry left over by an odd count
ProcessColumn_DropsOdd(columnCnots, gates) ==
  PairLoop(SortByTarget(columnCnots), 1, gates)

\* one column: sort, pair, then the entry left over by an odd count
ProcessColumn(columnCnots, gates) ==
  LET sorted == SortByTarget(columnCnots)
      paired == PairLoop(sorted, 1, gates)
  IN IF Len(sorted) % 2 # 0 THEN Append(paired, sorted[Len(sorted)]) ELSE paired

ColumnKeys(cnotControls) ==
  {ColumnKey(cnotControls[i].position.x) : i \in DOMAIN cnotControls}

\* a variant that visits the columns from the largest key down
RECURSIVE ColumnsLoop_Descending(_, _, _)
ColumnsLoop_Descending(cnotControls, keys, gates) ==
  IF keys = {} THEN gates
  ELSE LET k == CHOOSE m \in keys : \A n \in keys : m >= n
           InColumn(g) == ColumnKey(g.position.x) = k
       IN ColumnsLoop_Descending(cnotControls, keys \ {k},
                                 ProcessColumn(SelectSeq(cnotControls, InColumn), gates))

\* Object.values(cnotsByColumn): the keys are non-negative integers, which an
\* object enumerates in ascending numeric order
RECURSIVE ColumnsLoop(_, _, _)
ColumnsLoop(cnotControls, keys, gates) ==
  IF keys = {} THEN gates
  ELSE LET k == CHOOSE m \in keys : \A n \in keys : m <= n
           InColumn(g) == ColumnKey(g.position.x) = k
       IN ColumnsLoop(cnotControls, keys \ {k},
                      ProcessColumn(SelectSeq(cnotControls, InColumn), gates))

\* processCnotGates(cnotControls, gates, wirePositions): gates afterwards
processCnotGates(cnotControls, gates) ==
  ColumnsLoop(cnotControls, ColumnKeys(cnotControls), gates)

\* gates.reduce((max, gate) => Math.max(max, gate.position.x), 0)
RECURSIVE MaxX(_, _, _)
MaxX(gates, i, max) ==
  IF i > Len(gates) THEN max
  ELSE MaxX(gates, i + 1, IF gates[i].position.x > max THEN gates[i].position.x ELSE max)

Depth(gates) == Ceil(MaxX(gates, 1, 0), gridSize) + 1

recognizeCircuit(strokeList) ==
  LET wirePositions == WirePositions(strokeList)
      acc == GateStrokesLoop(SelectSeq(strokeList, IsNotWire), 1, wirePositions,
                             [gates |-> << >>, cnotControls |-> << >>])
      gates == processCnotGates(acc.cnotControls, acc.gates)
  IN Circuit(Len(wirePositions), Depth(gates), gates)

(***************************************************************************)
(* The state of each part before it is used.                               *)
(***************************************************************************)
IdleVal ==
  /\ vCircuit = Circuit(0, 1, << >>)
  /\ vCalled = FALSE
  /\ vResult = FALSE

IdleSim ==
  /\ numQubits = 0
  /\ stateVector = NewStateVector(0)
  /\ lastOp = NoOp
  /\ twice = FALSE
  /\ prevVector = stateVector
  /\ prev2Vector = stateVector

\* useState([]), useState([]), useState(null)
IdleRun ==
  /\ circuit = None
  /\ uiStateVector = << >>
  /\ probabilities = << >>
  /\ error = FALSE
  /\ effectPending = FALSE

IdleRec ==
  /\ strokes = << >>
  /\ recCalled = FALSE
  /\ recTwice = FALSE
  /\ recOut = None
  /\ recFirst = None

IdleSnap ==
  /\ returned = None
  /\ returnedShared = FALSE
  /\ expected = None
  /\ laterCalls = 0

IdleCanvas ==
  /\ currentTool = "wire"
  /\ drawingMode = "wire"
  /\ isDrawing = FALSE
  /\ currentStroke = None
  /\ canvasStrokes = << >>
  /\ canvasGates = << >>
  /\ wireSnapPositions = << >>
  /\ pendingNotify = << >>
  /\ circuitStrokes = << >>

IdleWire ==
  /\ snapWires = << >>
  /\ snapY = 0
  /\ snapOut = None
  /\ targetOut = None

(***************************************************************************)
(* validateCircuit on hand-built circuits, indices in and out of range.    *)
(***************************************************************************)
ValIdx == (0 - 1)..MaxQubits

ValTargets == {<<t>> : t \in ValIdx} \cup {<<0, MaxQubits - 1>>}

ValControls ==
  {None, Some(<<0>>), Some(<<0 - 1>>), Some(<<0, MaxQubits>>)}

ValGates ==
  {Gate("hadamard", t, c, Point(40, 100)) : t \in ValTargets, c \in ValControls}

ValCircuits ==
  {Circuit(n, 2, gs) : n \in 0..MaxQubits, gs \in SeqsUpTo(ValGates, MaxValGates)}

InitVal ==
  /\ vCircuit \in ValCircuits
  /\ vCalled = FALSE
  /\ vResult = FALSE

Validate ==
  /\ ~vCalled
  /\ vCalled' = TRUE
  /\ vResult' = validateCircuit(vCircuit)
  /\ UNCHANGED vCircuit

NextVal == Validate /\ UNCHANGED <<simVars, runVars, recVars, canvasVars, snapVars, wireVars>>

InitValFull == InitVal /\ IdleSim /\ IdleRun /\ IdleRec /\ IdleCanvas /\ IdleSnap /\ IdleWire

SpecVal == InitValFull /\ [][NextVal]_vars

\* every index the circuit's gates name as a target or as a control
GateIndices(g) ==
  {g.targets[i] : i \in DOMAIN g.targets}
    \cup (IF IsSome(g.controls)
          THEN {Get(g.controls)[i] : i \in DOMAIN Get(g.controls)}
          ELSE {})

IndexOccurrences(c) ==
  {<<i, "t", j>> : i \in DOMAIN c.gates, j \in 1..2}
    \cup {<<i, "c", j>> : i \in DOMAIN c.gates, j \in 1..2}

OccurrenceValue(c, o) ==
  LET g == c.gates[o[1]]
      arr == IF o[2] = "t" THEN g.targets
             ELSE IF IsSome(g.controls) THEN Get(g.controls) ELSE << >>
  IN IF o[3] \in DOMAIN arr THEN Some(arr[o[3]]) ELSE None

OutOfRangeOccurrences(c) ==
  {o \in IndexOccurrences(c) :
     /\ IsSome(OccurrenceValue(c, o))
     /\ ~(Get(OccurrenceValue(c, o)) \in 0..(c.qubits - 1))}

\* C2: validateCircuit returns true if and only if qubits = 0 or every index
\* in every gate's targets and controls lies in [0, qubits); one index out of
\* range makes the result false.
C2_ValidateIffInRange ==
  vCalled =>
    (vResult <=>
       (\/ vCircuit.qubits = 0
        \/ \A i \in DOMAIN vCircuit.gates :
             \A x \in GateIndices(vCircuit.gates[i]) :
               x >= 0 /\ x < vCircuit.qubits))

C2_Witness ==
  /\ vCalled
  /\ ~vResult
  /\ vCircuit.qubits = MaxQubits
  /\ Len(vCircuit.gates) = 2
  /\ Cardinality(OutOfRangeOccurrences(vCircuit)) = 1
  /\ \E o \in OutOfRangeOccurrences(vCircuit) :
       o[1] = 2 /\ Get(OccurrenceValue(vCircuit, o)) = MaxQubits


(***************************************************************************)
(* QuantumSimulator: the effect that runs the simulation of the circuit    *)
(* prop.                                                                   *)
(***************************************************************************)
\* a variant that inserts g in front of the gates with the same position.x
RECURSIVE InsertByX_BeforeEquals(_, _)
InsertByX_BeforeEquals(sorted, g) ==
  IF sorted = << >> THEN <<g>>
  ELSE IF sorted[Len(sorted)].position.x < g.position.x
       THEN Append(sorted, g)
       ELSE Append(InsertByX_BeforeEquals(SubSeq(sorted, 1, Len(sorted) - 1), g),
                   sorted[Len(sorted)])

\* insert g behind every gate whose position.x is not larger: the sort of
\* [...circuit.gates].sort((a, b) => a.position.x - b.position.x) is stable
RECURSIVE InsertByX(_, _)
InsertByX(sorted, g) ==
  IF sorted = << >> THEN <<g>>
  ELSE IF sorted[Len(sorted)].position.x <= g.position.x
       THEN Append(sorted, g)
       ELSE Append(InsertByX(SubSeq(sorted, 1, Len(sorted) - 1), g),
                   sorted[Len(sorted)])

RECURSIVE SortByX(_)
SortByX(gates) ==
  IF gates = << >> THEN << >>
  ELSE InsertByX(SortByX(SubSeq(gates, 1, Len(gates) - 1)), gates[Len(gates)])

\* gate.controls && gate.controls.length > 0
HasControl(gate) == IsSome(gate.controls) /\ Len(Get(gate.controls)) > 0

\* the switch with pauliY dispatched to applyPauliX
ApplyGate_YAsX(sv, gate) ==
  CASE gate.type = "hadamard" -> applyHadamard(sv, gate.targets[1])
    [] gate.type = "pauliX" -> applyPauliX(sv, gate.targets[1])
    [] gate.type = "pauliY" -> applyPauliX(sv, gate.targets[1])
    [] gate.type = "pauliZ" -> applyPauliZ(sv, gate.targets[1])
    [] gate.type = "cnot" ->
         IF HasControl(gate)
         THEN applyCNOT(sv, Get(gate.controls)[1], gate.targets[1])
         ELSE Result(TRUE, sv)
    [] OTHER -> Result(TRUE, sv)

\* the switch on gate.type
ApplyGate(sv, gate) ==
  CASE gate.type = "hadamard" -> applyHadamard(sv, gate.targets[1])
    [] gate.type = "pauliX" -> applyPauliX(sv, gate.targets[1])
    [] gate.type = "pauliZ" -> applyPauliZ(sv, gate.targets[1])
    [] gate.type = "cnot" ->
         IF HasControl(gate)
         THEN applyCNOT(sv, Get(gate.controls)[1], gate.targets[1])
         ELSE Result(TRUE, sv)
    [] OTHER -> Result(TRUE, sv)

\* sortedGates.forEach(...): a throw ends the loop
RECURSIVE ApplyGates(_, _, _)
ApplyGates(sv, gates, i) ==
  IF i > Len(gates) THEN Result(TRUE, sv)
  ELSE LET r == ApplyGate(sv, gates[i])
       IN IF r.ok THEN ApplyGates(r.v, gates, i + 1) ELSE Result(FALSE, r.v)

\* the body of the try block
Simulate(c) == ApplyGates(NewStateVector(c.qubits), SortByX(c.gates), 1)

RunEffect ==
  /\ effectPending
  /\ effectPending' = FALSE
  /\ UNCHANGED circuit
  /\ IF ~IsSome(circuit)
     THEN UNCHANGED <<uiStateVector, probabilities, error>>
     ELSE LET r == Simulate(Get(circuit))
          IN IF r.ok
             THEN /\ uiStateVector' = r.v
                  /\ probabilities' = getProbabilities(r.v)
                  /\ error' = FALSE
             ELSE /\ error' = TRUE
                  /\ UNCHANGED <<uiStateVector, probabilities>>

(***************************************************************************)
(* The simulation of hand-built circuits.                                  *)
(***************************************************************************)
RunTargets == {0, 1}

RunGates ==
  {Gate(ty, <<t>>, None, Point(x, 100)) :
     ty \in {"hadamard", "pauliX"}, t \in RunTargets, x \in {40, 80}}
  \cup {Gate(ty, <<t>>, None, Point(40, 100)) :
     ty \in {"pauliZ", "pauliY", "measure"}, t \in RunTargets}
  \cup {Gate("cnot", <<t>>, c, Point(80, 100)) :
     t \in RunTargets, c \in {None, Some(<<0>>), Some(<<1>>)}}

RunCircuits ==
  {Circuit(n, 3, gs) : n \in 0..MaxQubits, gs \in SeqsUpTo(RunGates, MaxRunGates)}

InitRun ==
  /\ circuit \in {Some(c) : c \in RunCircuits}
  /\ uiStateVector = << >>
  /\ probabilities = << >>
  /\ error = FALSE
  /\ effectPending = TRUE

NextRun == RunEffect /\ UNCHANGED <<simVars, valVars, recVars, canvasVars, snapVars, wireVars>>

InitRunFull == InitRun /\ IdleSim /\ IdleVal /\ IdleRec /\ IdleCanvas /\ IdleSnap /\ IdleWire

SpecRun == InitRunFull /\ [][NextRun]_vars

UnitaryTypes == {"hadamard", "pauliX", "pauliZ", "cnot"}

OnlyUnitaryTypes(c) == \A i \in DOMAIN c.gates : c.gates[i].type \in UnitaryTypes

RECURSIVE SumOver(_, _)
SumOver(p, idx) ==
  IF idx = {} THEN Zero
  ELSE LET i == CHOOSE j \in idx : TRUE
       IN Add(p[i], SumOver(p, idx \ {i}))

IsSkipped(gate) ==
  \/ gate.type = "pauliY"
  \/ gate.type = "measure"
  \/ gate.type = "cnot" /\ ~HasControl(gate)

IsApplied(gate) == ~IsSkipped(gate)

\* C15: in a simulation run a pauliY gate, a measure gate and a cnot gate
\* without controls leave the state vector as it is, and every other gate
\* of the circuit is applied exactly as if the skipped gates were absent.
C15_SkippedGatesChangeNothing ==
  (IsSome(circuit) /\ ~effectPending) =>
    LET c == Get(circuit)
        without == Simulate(Circuit(c.qubits, c.depth, SelectSeq(c.gates, IsApplied)))
    IN /\ error = ~without.ok
       /\ without.ok => /\ uiStateVector = without.v
                        /\ probabilities = getProbabilities(without.v)
       /\ (\A i \in DOMAIN c.gates : IsSkipped(c.gates[i]))
            => /\ ~error
               /\ uiStateVector[0] = Complex(One, Zero)
               /\ \A i \in DOMAIN uiStateVector :
                    i # 0 => uiStateVector[i] = Complex(Zero, Zero)

C15_Witness ==
  /\ IsSome(circuit)
  /\ ~effectPending
  /\ ~error
  /\ Get(circuit).qubits = 1
  /\ Len(Get(circuit).gates) = 2
  /\ Get(circuit).gates[1].type = "pauliY"
  /\ Get(circuit).gates[2].type = "hadamard"
  /\ Get(circuit).gates[2].position.x = 40
  /\ uiStateVector[1] # Complex(Zero, Zero)

\* the gates in ascending order of position.x, gates with the same
\* position.x in the order of the list: the gate of rank r is the one with
\* r - 1 gates before it
StableOrderByX(gates) ==
  LET before == [i \in DOMAIN gates |->
                   {j \in DOMAIN gates :
                      \/ gates[j].position.x < gates[i].position.x
                      \/ gates[j].position.x = gates[i].position.x /\ j < i}]
  IN [r \in DOMAIN gates |->
        gates[CHOOSE i \in DOMAIN gates : Cardinality(before[i]) = r - 1]]

\* C26: the simulation applies the circuit's gates in ascending order of
\* position.x, gates with equal position.x in the order they have in
\* circuit.gates, and it does not reorder the circuit's own gates list.
C26_GatesAppliedInStableXOrder ==
  /\ [](IsSome(circuit) /\ ~effectPending =>
          LET c == Get(circuit)
              r == ApplyGates(NewStateVector(c.qubits), StableOrderByX(c.gates), 1)
          IN /\ error = ~r.ok
             /\ r.ok => /\ uiStateVector = r.v
                        /\ probabilities = getProbabilities(r.v))
  /\ [][circuit' = circuit]_vars

C26_Witness ==
  /\ ~effectPending
  /\ ~error
  /\ circuit = Some(Circuit(1, 3, <<Gate("pauliX", <<0>>, None, Point(80, 100)),
                                    Gate("hadamard", <<0>>, None, Point(40, 100))>>))
  /\ uiStateVector[0] = Complex(factor, Zero)
  /\ uiStateVector[1] = Complex(factor, Zero)

(***************************************************************************)
(* recognizeCircuit on stroke lists: wires at y = 100 and y = 130 (30 apart, *)
(* so that a point can lie within the threshold of both), gate strokes on, *)
(* between and off the wires, strokes without points, cnot strokes in the  *)
(* columns 40, 80 and 120.                                                 *)
(***************************************************************************)
\* getColorForTool
ColorForTool(tool) ==
  CASE tool = "wire" -> "#FFFFFF"
    [] tool = "hadamard" -> "#3B82F6"
    [] tool = "pauliX" -> "#EF4444"
    [] tool = "pauliY" -> "#10B981"
    [] tool = "pauliZ" -> "#8B5CF6"
    [] tool = "cnot" -> "#F59E0B"
    [] tool = "measure" -> "#F97316"
    [] OTHER -> "#FFFFFF"

\* a wire as the canvas records it: a horizontal line from its first point
WireStroke(y) == Stroke(<<Point(20, y), Point(220, y)>>, "wire", "#FFFFFF", 3)

\* a gate as notifyCircuitChange hands it over: one point
GateStroke(tool, x, y) == Stroke(<<Point(x, y)>>, tool, ColorForTool(tool), 4)

\* a stroke with no recorded point
EmptyStroke(tool) == Stroke(<< >>, tool, ColorForTool(tool), 4)

SnapAlphabet ==
  {WireStroke(100), WireStroke(130), EmptyStroke("wire"),
   GateStroke("hadamard", 40, 100), GateStroke("pauliX", 60, 115),
   GateStroke("hadamard", 40, 120), GateStroke("pauliZ", 80, 150),
   EmptyStroke("measure")}

CnotAlphabet ==
  {WireStroke(100), WireStroke(130),
   GateStroke("cnot", 40, 100), GateStroke("cnot", 59, 130),
   GateStroke("cnot", 59, 100), GateStroke("cnot", 100, 130),
   GateStroke("hadamard", 40, 100)}

StrokeLists ==
  SeqsUpTo(SnapAlphabet, MaxStrokes) \cup SeqsUpTo(CnotAlphabet, MaxStrokes)

InitRec ==
  /\ strokes \in StrokeLists
  /\ recCalled = FALSE
  /\ recTwice = FALSE
  /\ recOut = None
  /\ recFirst = None

\* a variant in which the call leaves the caller's array reversed
StrokesAfterCall_Reversed(strokeList) ==
  [i \in DOMAIN strokeList |-> strokeList[Len(strokeList) + 1 - i]]

\* the caller's array after the call: recognizeCircuit only reads it
StrokesAfterCall(strokeList) == strokeList

Recognize ==
  /\ ~recTwice
  /\ recOut' = Some(recognizeCircuit(strokes))
  /\ recFirst' = IF recCalled THEN recFirst ELSE recOut'
  /\ recCalled' = TRUE
  /\ recTwice' = recCalled
  /\ strokes' = StrokesAfterCall(strokes)
  /\ UNCHANGED valVars

\* validateCircuit(recognizedCircuit), as handleCircuitChange calls it
ValidateRecognized ==
  /\ recCalled
  /\ ~vCalled
  /\ vCircuit' = Get(recOut)
  /\ vCalled' = TRUE
  /\ vResult' = validateCircuit(Get(recOut))
  /\ UNCHANGED recVars

NextRec ==
  \/ Recognize /\ UNCHANGED <<simVars, runVars, canvasVars, snapVars, wireVars>>
  \/ ValidateRecognized /\ UNCHANGED <<simVars, runVars, canvasVars, snapVars, wireVars>>

InitRecFull == InitRec /\ IdleSim /\ IdleVal /\ IdleRun /\ IdleCanvas /\ IdleSnap /\ IdleWire

SpecRec == InitRecFull /\ [][NextRec]_vars

WireYs(strokeList) ==
  {strokeList[i].points[1].y :
     i \in {j \in DOMAIN strokeList :
              strokeList[j].tool = "wire" /\ Len(strokeList[j].points) > 0}}

\* the rank of y among the wire y-coordinates, in ascending order
RankOfY(strokeList, y) == Cardinality({w \in WireYs(strokeList) : w < y})

\* C9: qubits is the number of distinct first-point y-coordinates among the
\* wire strokes that have a point (equal y collapse to one qubit), and a
\* wire's qubit index is the rank of its y in ascending order, whatever the
\* order in which the wires were drawn.
C9_QubitsAreDistinctWireYs ==
  recCalled =>
    /\ Get(recOut).qubits = Cardinality(WireYs(strokes))
    /\ \A i \in DOMAIN Get(recOut).gates :
         LET g == Get(recOut).gates[i]
         IN g.position.y \in WireYs(strokes)
              => g.targets[1] = RankOfY(strokes, g.position.y)

C9_Witness ==
  /\ recCalled
  /\ Len(strokes) = 4
  /\ strokes[1] = WireStroke(130)
  /\ strokes[2] = WireStroke(100)
  /\ strokes[3] = WireStroke(130)
  /\ strokes[4] = GateStroke("hadamard", 40, 100)
  /\ Get(recOut).qubits = 2
  /\ Get(recOut).gates[1].targets = <<0>>

\* a non-wire stroke with a point and a wire strictly nearer than snapThreshold
IsMatched(strokeList, stroke) ==
  /\ stroke.tool # "wire"
  /\ Len(stroke.points) > 0
  /\ \E w \in WireYs(strokeList) : Abs(w - stroke.points[1].y) < snapThreshold

MatchedStrokes(strokeList) ==
  LET Test(stroke) == IsMatched(strokeList, stroke)
  IN SelectSeq(strokeList, Test)

IsCnotTool(x) == x.tool = "cnot"
IsOtherTool(x) == x.tool # "cnot"
IsCnotType(g) == g.type = "cnot"
IsOtherType(g) == g.type # "cnot"

\* how many strokes a gate stands for: a controlled cnot stands for two
RECURSIVE StrokesStoodFor(_, _)
StrokesStoodFor(gates, i) ==
  IF i > Len(gates) THEN 0
  ELSE (IF IsSome(gates[i].controls) THEN 2 ELSE 1) + StrokesStoodFor(gates, i + 1)

\* C10: a non-wire stroke contributes to the recognized gates if and only if
\* it has a point and some wire's y is strictly nearer than snapThreshold to
\* its first point's y; any other stroke is dropped, and with no wire the
\* gate list is empty.
C10_MatchedStrokesContribute ==
  recCalled =>
    LET matched == MatchedStrokes(strokes)
        others == SelectSeq(matched, IsOtherTool)
        gates == Get(recOut).gates
        plain == SelectSeq(gates, IsOtherType)
    IN /\ Len(plain) = Len(others)
       /\ \A i \in DOMAIN plain :
            /\ plain[i].type = others[i].tool
            /\ plain[i].position = others[i].points[1]
       /\ StrokesStoodFor(SelectSeq(gates, IsCnotType), 1)
            = Len(SelectSeq(matched, IsCnotTool))
       /\ (WireYs(strokes) = {} => gates = << >>)

C10_Witness ==
  /\ recCalled
  /\ strokes = <<WireStroke(100), GateStroke("hadamard", 40, 120),
                 EmptyStroke("measure"), GateStroke("hadamard", 40, 100)>>
  /\ Len(Get(recOut).gates) = 1
  /\ Get(recOut).gates[1].position = Point(40, 100)

\* the largest position.x among the gates, 0 when there are none
MaxGateX(gateList) ==
  IF gateList = << >> THEN 0
  ELSE CHOOSE m \in {gateList[i].position.x : i \in DOMAIN gateList} :
         \A i \in DOMAIN gateList : gateList[i].position.x <= m

\* the least k with k * gridSize >= x
CeilOfColumns(x) == CHOOSE k \in 0..x : k * gridSize >= x /\ (k = 0 \/ (k - 1) * gridSize < x)

\* C11: recognizeCircuit returns depth = ceil(maxGateX / gridSize) + 1, with
\* maxGateX the largest position.x among the returned gates and 0 when there
\* are none, so wires without gates give depth 1.
C11_DepthFromMaxGateX ==
  recCalled =>
    /\ Get(recOut).depth = CeilOfColumns(MaxGateX(Get(recOut).gates)) + 1
    /\ (Get(recOut).gates = << >> => Get(recOut).depth = 1)

C11_Witness ==
  /\ recCalled
  /\ Get(recOut).qubits = 2
  /\ Len(Get(recOut).gates) = 2
  /\ MaxGateX(Get(recOut).gates) = 59
  /\ Get(recOut).depth = 3

\* the time-columns in which the gates lie
OccupiedColumns(gateList) ==
  {ColumnKey(gateList[i].position.x) : i \in DOMAIN gateList}

NearestWireIndex(strokeList, y) ==
  LET ys == WireYs(strokeList)
      w == CHOOSE v \in ys :
             \A u \in ys : Abs(v - y) < Abs(u - y) \/ (Abs(v - y) = Abs(u - y) /\ v <= u)
  IN Cardinality({u \in ys : u < w})

\* the positions in strokeList of the matched cnot strokes
MatchedCnots(strokeList) ==
  LET ys == WireYs(strokeList)
  IN {i \in DOMAIN strokeList :
        /\ strokeList[i].tool = "cnot"
        /\ Len(strokeList[i].points) > 0
        /\ \E w \in ys : Abs(w - strokeList[i].points[1].y) < snapThreshold}

CnotPlan(strokeList) ==
  LET matched == MatchedCnots(strokeList)
      col == [k \in matched |-> ColumnKey(strokeList[k].points[1].x)]
      wire == [k \in matched |->
                 NearestWireIndex(strokeList, strokeList[k].points[1].y)]
      place == [i \in matched |->
                  Cardinality({j \in matched :
                                 /\ col[j] = col[i]
                                 /\ \/ wire[j] < wire[i]
                                    \/ wire[j] = wire[i] /\ j < i})]
      size == [i \in matched |-> Cardinality({j \in matched : col[j] = col[i]})]
  IN [matched |-> matched, col |-> col, wire |-> wire, place |-> place,
      size |-> size]

\* i and j are the two entries of a consecutive pair of one column
IsPair(plan, i, j) ==
  /\ plan.col[i] = plan.col[j]
  /\ plan.place[i] % 2 = 0
  /\ plan.place[j] = plan.place[i] + 1

\* the control-less cnot gate of matched cnot stroke i
AloneGate(strokeList, plan, i) ==
  Gate("cnot", <<plan.wire[i]>>, None, strokeList[i].points[1])

\* how many times gate g occurs in gateList
Occurrences(gateList, g) ==
  Cardinality({k \in DOMAIN gateList : gateList[k] = g})

\* C21: when the two entries of a consecutive cnot pair of a column lie on
\* the same wire, no controlled gate is created for them: both are emitted
\* as separate cnot gates with one target and no controls.
C21_SameWirePairStaysSeparate ==
  recCalled =>
    LET plan == CnotPlan(strokes)
        gateList == Get(recOut).gates
    IN \A i \in plan.matched : \A j \in plan.matched :
         (IsPair(plan, i, j) /\ plan.wire[i] = plan.wire[j]) =>
           /\ \E k \in DOMAIN gateList : \E m \in DOMAIN gateList :
                /\ k # m
                /\ gateList[k] = AloneGate(strokes, plan, i)
                /\ gateList[m] = AloneGate(strokes, plan, j)
           /\ \A k \in DOMAIN gateList :
                gateList[k] # Gate("cnot", <<plan.wire[j]>>,
                                   Some(<<plan.wire[i]>>), strokes[j].points[1])

C21_Witness ==
  /\ recCalled
  /\ strokes = <<WireStroke(100), GateStroke("cnot", 40, 100),
                 GateStroke("cnot", 59, 100)>>
  /\ Get(recOut).gates = <<Gate("cnot", <<0>>, None, Point(40, 100)),
                           Gate("cnot", <<0>>, None, Point(59, 100))>>

\* C22: in a column with an odd number of matched cnot entries the last
\* entry in sorted order is emitted as a control-less cnot gate, and every
\* matched cnot stroke is accounted for exactly once in the output, as one
\* half of a controlled pair or as one control-less gate: each control-less
\* gate occurs as many times as there are strokes it stands for.
C22_EveryCnotStrokeOnce ==
  recCalled =>
    LET plan == CnotPlan(strokes)
        gateList == Get(recOut).gates
        halves == {i \in plan.matched :
                     \E j \in plan.matched :
                       /\ plan.wire[i] # plan.wire[j]
                       /\ IsPair(plan, i, j) \/ IsPair(plan, j, i)}
        alone == plan.matched \ halves
        last == {i \in plan.matched :
                   /\ plan.size[i] % 2 = 1
                   /\ plan.place[i] = plan.size[i] - 1}
        cnots == {k \in DOMAIN gateList : gateList[k].type = "cnot"}
        controlled == {k \in cnots : IsSome(gateList[k].controls)}
    IN /\ last \subseteq alone
       /\ \A i \in alone :
            Occurrences(gateList, AloneGate(strokes, plan, i))
              = Cardinality({j \in alone : AloneGate(strokes, plan, j)
                                             = AloneGate(strokes, plan, i)})
       /\ Cardinality(cnots \ controlled) = Cardinality(alone)
       /\ 2 * Cardinality(controlled) = Cardinality(halves)

C22_Witness ==
  /\ recCalled
  /\ strokes = <<WireStroke(100), GateStroke("cnot", 40, 100),
                 GateStroke("cnot", 59, 100), GateStroke("cnot", 40, 100)>>
  /\ Get(recOut).gates = <<Gate("cnot", <<0>>, None, Point(40, 100)),
                           Gate("cnot", <<0>>, None, Point(59, 100)),
                           Gate("cnot", <<0>>, None, Point(40, 100))>>

\* C23: the returned gates are first the gates of the non-cnot strokes in
\* stroke order, then the cnot-derived gates by ascending column and, within
\* one column, by ascending wire index.
C23_PlainGatesThenCnotsByColumn ==
  recCalled =>
    LET gateList == Get(recOut).gates
        others == SelectSeq(MatchedStrokes(strokes), IsOtherTool)
        n == Len(others)
    IN /\ n <= Len(gateList)
       /\ \A k \in 1..n :
            /\ gateList[k].type = others[k].tool
            /\ gateList[k].position = others[k].points[1]
       /\ \A k \in (n + 1)..Len(gateList) : gateList[k].type = "cnot"
       /\ \A k \in (n + 1)..(Len(gateList) - 1) :
            LET a == gateList[k]
                b == gateList[k + 1]
            IN \/ ColumnKey(a.position.x) < ColumnKey(b.position.x)
               \/ /\ ColumnKey(a.position.x) = ColumnKey(b.position.x)
                  /\ a.targets[1] <= b.targets[1]

C23_Witness ==
  /\ recCalled
  /\ strokes = <<WireStroke(100), WireStroke(130),
                 GateStroke("cnot", 100, 130), GateStroke("cnot", 40, 100)>>
  /\ Get(recOut).gates = <<Gate("cnot", <<0>>, None, Point(40, 100)),
                           Gate("cnot", <<1>>, None, Point(100, 130))>>

\* C24: no returned gate has a control equal to its target.
C24_ControlDiffersFromTarget ==
  recCalled =>
    \A k \in DOMAIN Get(recOut).gates :
      LET g == Get(recOut).gates[k]
      IN IsSome(g.controls) => Get(g.controls)[1] # g.targets[1]

C24_Witness ==
  /\ recCalled
  /\ strokes = <<WireStroke(130), WireStroke(100),
                 GateStroke("cnot", 40, 100), GateStroke("cnot", 59, 130)>>
  /\ Get(recOut).gates = <<Gate("cnot", <<1>>, Some(<<0>>), Point(59, 130))>>

\* C25: the circuit returned by recognizeCircuit is accepted by
\* validateCircuit: every returned gate has exactly one target and at most
\* one control, and all of these indices lie in [0, qubits).
C25_RecognizedCircuitIsValid ==
  /\ recCalled =>
       LET c == Get(recOut)
       IN /\ validateCircuit(c)
          /\ \A k \in DOMAIN c.gates :
               LET g == c.gates[k]
               IN /\ Len(g.targets) = 1
                  /\ g.targets[1] \in 0..(c.qubits - 1)
                  /\ IsSome(g.controls) =>
                       /\ Len(Get(g.controls)) = 1
                       /\ Get(g.controls)[1] \in 0..(c.qubits - 1)
  /\ vCalled => vResult

C25_Witness ==
  /\ vCalled
  /\ vResult
  /\ vCircuit = Circuit(2, 3, <<Gate("cnot", <<1>>, Some(<<0>>), Point(59, 130))>>)

(***************************************************************************)
(* The simulator used as an object: construction, then any sequence of     *)
(* gate methods with qubit arguments in [0, numQubits) and, for applyCNOT, *)
(* control # target.                                                       *)
(***************************************************************************)
Qubits == 0..(numQubits - 1)

InitSim ==
  /\ numQubits \in 0..MaxQubits
  /\ stateVector = NewStateVector(numQubits)
  /\ lastOp = NoOp
  /\ twice = FALSE
  /\ prevVector = stateVector
  /\ prev2Vector = stateVector

Called(op, r) ==
  /\ stateVector' = r.v
  /\ prevVector' = stateVector
  /\ twice' = (op = lastOp)
  /\ prev2Vector' = IF op = lastOp THEN prevVector ELSE stateVector
  /\ lastOp' = op
  /\ UNCHANGED numQubits

CallHadamard ==
  \E k \in Qubits : Called(Op("hadamard", k, 0), applyHadamard(stateVector, k))

CallPauliX ==
  \E k \in Qubits : Called(Op("pauliX", k, 0), applyPauliX(stateVector, k))

CallPauliZ ==
  \E k \in Qubits : Called(Op("pauliZ", k, 0), applyPauliZ(stateVector, k))

CallCNOT ==
  \E c \in Qubits : \E t \in Qubits \ {c} :
     Called(Op("cnot", t, c), applyCNOT(stateVector, c, t))

NextSim ==
  \/ CallHadamard /\ UNCHANGED <<valVars, runVars, recVars, canvasVars, snapVars, wireVars>>
  \/ CallPauliX /\ UNCHANGED <<valVars, runVars, recVars, canvasVars, snapVars, wireVars>>
  \/ CallPauliZ /\ UNCHANGED <<valVars, runVars, recVars, canvasVars, snapVars, wireVars>>
  \/ CallCNOT /\ UNCHANGED <<valVars, runVars, recVars, canvasVars, snapVars, wireVars>>

InitSimFull == InitSim /\ IdleVal /\ IdleRun /\ IdleRec /\ IdleCanvas /\ IdleSnap /\ IdleWire

SpecSim == InitSimFull /\ [][NextSim]_vars

(***************************************************************************)
(* Properties of the gate methods.                                         *)
(***************************************************************************)
BasisVector(len, j) ==
  [i \in 0..(len - 1) |-> IF i = j THEN Complex(One, Zero) ELSE Complex(Zero, Zero)]

IsBasisState(v) == \E j \in DOMAIN v : v = BasisVector(VecLen(v), j)

BasisIndex(v) == CHOOSE j \in DOMAIN v : v = BasisVector(VecLen(v), j)

\* the index that differs from i in bit k and in no other bit
XorBit(v, i, k) ==
  CHOOSE j \in DOMAIN v :
    \A b \in 0..(MaxQubits + 1) :
      BitValue(j, b) = IF b = k THEN 1 - BitValue(i, b) ELSE BitValue(i, b)

PlusF == factor
MinusF == Neg(factor)

\* C4: applying applyHadamard(k) twice in a row to a basis state returns the
\* state vector to that basis state, and so its probabilities to 1 on the
\* original index and 0 elsewhere.
C4_HadamardTwiceRestoresBasis ==
  (/\ lastOp.name = "hadamard"
   /\ twice
   /\ IsBasisState(prev2Vector))
  => /\ stateVector = prev2Vector
     /\ getProbabilities(stateVector) = getProbabilities(prev2Vector)

\* C5: applyHadamard(k) on a basis state whose bit k is 1 gives +1/sqrt(2) at
\* the index with bit k = 0 and -1/sqrt(2) at the index with bit k = 1; on a
\* basis state whose bit k is 0 it gives +1/sqrt(2) at both indices.
C5_HadamardOnBasis ==
  (lastOp.name = "hadamard" /\ IsBasisState(prevVector))
  => LET j == BasisIndex(prevVector)
         k == lastOp.q
         j0 == IF BitValue(j, k) = 0 THEN j ELSE XorBit(prevVector, j, k)
         j1 == XorBit(prevVector, j0, k)
     IN /\ stateVector[j0] = Complex(PlusF, Zero)
        /\ stateVector[j1] =
             Complex(IF BitValue(j, k) = 1 THEN MinusF ELSE PlusF, Zero)
        /\ \A i \in DOMAIN stateVector \ {j0, j1} :
             stateVector[i] = Complex(Zero, Zero)

\* C6: applyPauliX(k) moves the amplitude at every index i to the index
\* i XOR 2^k without scaling, and applying it twice in a row returns exactly
\* the original state vector.
C6_PauliXPermutes ==
  /\ lastOp.name = "pauliX"
       => \A i \in DOMAIN prevVector :
            stateVector[XorBit(prevVector, i, lastOp.q)] = prevVector[i]
  /\ (lastOp.name = "pauliX" /\ twice)
       => stateVector = prev2Vector

C6_Witness ==
  /\ lastOp = Op("pauliX", 1, 0)
  /\ twice
  /\ ~IsBasisState(prev2Vector)
  /\ prevVector # prev2Vector
  /\ stateVector = prev2Vector

\* C7: applyCNOT(control, target) with control # target: the amplitude of
\* every index i whose control bit is 1 moves to i XOR 2^target, the amplitude
\* of every index whose control bit is 0 stays, and the new vector is a
\* permutation of the old amplitudes.
CnotImage(v, i, control, target) ==
  IF BitValue(i, control) = 1 THEN XorBit(v, i, target) ELSE i

C7_CnotPermutes ==
  lastOp.name = "cnot"
  => /\ \A i \in DOMAIN prevVector :
          stateVector[CnotImage(prevVector, i, lastOp.c, lastOp.q)] = prevVector[i]
     /\ \A i, j \in DOMAIN prevVector :
          CnotImage(prevVector, i, lastOp.c, lastOp.q)
            = CnotImage(prevVector, j, lastOp.c, lastOp.q) => i = j
     /\ DOMAIN stateVector = DOMAIN prevVector

C7_Witness ==
  /\ lastOp = Op("cnot", 0, 1)
  /\ stateVector # prevVector
  /\ ~IsBasisState(prevVector)

\* C13: a freshly constructed simulator for n qubits holds exactly 2^n
\* amplitudes, all (0,0) except index 0 which is (1,0); for n = 0 it holds
\* the single amplitude (1,0); its probabilities are 1 at index 0 and 0
\* elsewhere.
C13_FreshSimulatorIsZeroState ==
  lastOp = NoOp =>
    /\ DOMAIN stateVector = 0..(2 ^ numQubits - 1)
    /\ stateVector[0] = Complex(One, Zero)
    /\ \A i \in DOMAIN stateVector : i # 0 => stateVector[i] = Complex(Zero, Zero)
    /\ (numQubits = 0 => VecLen(stateVector) = 1)
    /\ DOMAIN getProbabilities(stateVector) = DOMAIN stateVector
    /\ getProbabilities(stateVector)[0] = One
    /\ \A i \in DOMAIN stateVector : i # 0 => getProbabilities(stateVector)[i] = Zero

C13_Witness ==
  /\ lastOp = NoOp
  /\ numQubits = 2
  /\ VecLen(stateVector) = 4
  /\ getProbabilities(stateVector)[0] = One

(***************************************************************************)
(* getStateVector returns the reference this.stateVector, not a copy.      *)
(* applyHadamard, applyPauliX and applyCNOT end with an assignment of a    *)
(* new array to this.stateVector, so the array returned before is no       *)
(* longer the simulator's; applyPauliZ writes into the array in place.     *)
(* One returned reference is followed, for MaxLaterCalls calls after it.   *)
(***************************************************************************)
getStateVector ==
  /\ returned = None
  /\ returned' = Some(stateVector)
  /\ returnedShared' = TRUE
  /\ expected' = Some(stateVector)
  /\ laterCalls' = 0
  /\ UNCHANGED simVars

LaterCall ==
  /\ IsSome(returned) => laterCalls < MaxLaterCalls
  /\ laterCalls' = IF IsSome(returned) THEN laterCalls + 1 ELSE 0

\* this.stateVector = newStateVector
NewArray ==
  /\ LaterCall
  /\ returnedShared' = FALSE
  /\ UNCHANGED <<returned, expected>>

SnapHadamard == CallHadamard /\ NewArray

SnapPauliX == CallPauliX /\ NewArray

SnapCNOT == CallCNOT /\ NewArray

\* this.stateVector[i].re = -this.stateVector[i].re, in the array itself
SnapPauliZ ==
  /\ CallPauliZ
  /\ LaterCall
  /\ returned' = IF returnedShared THEN Some(stateVector') ELSE returned
  /\ UNCHANGED <<returnedShared, expected>>

\* the holder of the returned array assigns to one of its elements
WriteReturned ==
  \E i \in DOMAIN stateVector :
    /\ IsSome(returned)
    /\ LaterCall
    /\ returned' = Some([Get(returned) EXCEPT ![i] = Complex(Zero, Zero)])
    /\ expected' = Some([Get(expected) EXCEPT ![i] = Complex(Zero, Zero)])
    /\ stateVector' = IF returnedShared THEN Get(returned') ELSE stateVector
    /\ lastOp' = Op("write", i, 0)
    /\ prevVector' = stateVector
    /\ twice' = FALSE
    /\ prev2Vector' = stateVector
    /\ UNCHANGED <<numQubits, returnedShared>>

NextSnap ==
  \/ getStateVector /\ UNCHANGED <<valVars, runVars, recVars, canvasVars, wireVars>>
  \/ SnapHadamard /\ UNCHANGED <<valVars, runVars, recVars, canvasVars, wireVars>>
  \/ SnapPauliX /\ UNCHANGED <<valVars, runVars, recVars, canvasVars, wireVars>>
  \/ SnapPauliZ /\ UNCHANGED <<valVars, runVars, recVars, canvasVars, wireVars>>
  \/ SnapCNOT /\ UNCHANGED <<valVars, runVars, recVars, canvasVars, wireVars>>
  \/ WriteReturned /\ UNCHANGED <<valVars, runVars, recVars, canvasVars, wireVars>>

InitSnapFull == InitSim /\ IdleSnap /\ IdleVal /\ IdleRun /\ IdleRec /\ IdleCanvas /\ IdleWire

SpecSnap == InitSnapFull /\ [][NextSnap]_vars

C27_CallsKeepLengthAndNorm ==
  /\ DOMAIN stateVector = 0..(2 ^ numQubits - 1)
  /\ LET p == getProbabilities(stateVector)
     IN /\ DOMAIN p = DOMAIN stateVector
        /\ SumOver(p, DOMAIN p) = One

C27_Witness ==
  /\ numQubits = 2
  /\ lastOp = Op("cnot", 1, 0)
  /\ stateVector[0] = Complex(factor, Zero)
  /\ stateVector[3] = Complex(factor, Zero)

Half == Mul(factor, factor)

C29_PauliZNegatesBitOne ==
  lastOp.name = "pauliZ" =>
    /\ DOMAIN stateVector = DOMAIN prevVector
    /\ \A i \in DOMAIN prevVector :
         stateVector[i] = IF BitValue(i, lastOp.q) = 1
                          THEN Complex(Neg(prevVector[i].re), Neg(prevVector[i].im))
                          ELSE prevVector[i]
    /\ getProbabilities(stateVector) = getProbabilities(prevVector)
    /\ twice => stateVector = prev2Vector

C29_Witness ==
  /\ lastOp = Op("pauliZ", 0, 0)
  /\ twice
  /\ ~IsBasisState(prev2Vector)
  /\ prevVector # prev2Vector
  /\ stateVector = prev2Vector

(***************************************************************************)
(* CanvasManager and the page.  A handler runs as one step; the function   *)
(* a handler hands to setTimeout is a later step.  That function calls the *)
(* notifyCircuitChange of the render in which the handler was created, so  *)
(* the strokes and gates it combines are those of the moment the handler   *)
(* ran, before the handler's own setStrokes or setGates took effect.       *)
(* guidedMode keeps its initial value true: the Guided Mode button is not  *)
(* pressed, so the branches of free mode are not taken.                    *)
(***************************************************************************)
CanvasGate(tool, position, color) ==
  [tool |-> tool, position |-> position, color |-> color]

RECURSIVE GateStrokes(_, _)
GateStrokes(gateList, i) ==
  IF i > Len(gateList) THEN << >>
  ELSE <<Stroke(<<gateList[i].position>>, gateList[i].tool, gateList[i].color, 4)>>
         \o GateStrokes(gateList, i + 1)

\* the combinedStrokes of notifyCircuitChange
CombinedStrokes(strokeList, gateList) == strokeList \o GateStrokes(gateList, 1)

\* a variant in which a wire at the same distance replaces the closest one
RECURSIVE ClosestWireLoop_LastOnTie(_, _, _, _, _)
ClosestWireLoop_LastOnTie(positions, i, y, closestWire, minDistance) ==
  IF i > Len(positions) THEN [closestWire |-> closestWire, minDistance |-> minDistance]
  ELSE LET distance == Abs(y - positions[i])
       IN IF distance <= minDistance
          THEN ClosestWireLoop_LastOnTie(positions, i + 1, y, positions[i], distance)
          ELSE ClosestWireLoop_LastOnTie(positions, i + 1, y, closestWire, minDistance)

\* wireSnapPositions.forEach(wireY => ...): closestWire and minDistance
RECURSIVE ClosestWireLoop(_, _, _, _, _)
ClosestWireLoop(positions, i, y, closestWire, minDistance) ==
  IF i > Len(positions) THEN [closestWire |-> closestWire, minDistance |-> minDistance]
  ELSE LET distance == Abs(y - positions[i])
       IN IF distance < minDistance
          THEN ClosestWireLoop(positions, i + 1, y, positions[i], distance)
          ELSE ClosestWireLoop(positions, i + 1, y, closestWire, minDistance)

snapToNearestWire(positions, y) ==
  IF Len(positions) = 0 THEN y
  ELSE LET r == ClosestWireLoop(positions, 1, y, positions[1], Abs(y - positions[1]))
       IN IF r.minDistance < 20 THEN r.closestWire ELSE y

\* handleCircuitChange without the branch for the empty list
handleCircuitChange_IgnoreEmpty(strokeList) ==
  IF Len(strokeList) = 0
  THEN UNCHANGED <<circuit, circuitStrokes, effectPending>>
  ELSE LET recognizedCircuit == recognizeCircuit(strokeList)
       IN IF validateCircuit(recognizedCircuit)
          THEN /\ circuit' = Some(recognizedCircuit)
               /\ circuitStrokes' = strokeList
               /\ effectPending' = TRUE
          ELSE UNCHANGED <<circuit, circuitStrokes, effectPending>>

\* Home.handleCircuitChange
handleCircuitChange(strokeList) ==
  IF Len(strokeList) = 0
  THEN /\ circuit' = None
       /\ circuitStrokes' = << >>
       /\ effectPending' = (effectPending \/ circuit # None)
  ELSE LET recognizedCircuit == recognizeCircuit(strokeList)
       IN IF validateCircuit(recognizedCircuit)
          THEN /\ circuit' = Some(recognizedCircuit)
               /\ circuitStrokes' = strokeList
               /\ effectPending' = TRUE
          ELSE UNCHANGED <<circuit, circuitStrokes, effectPending>>

\* the tools, click and move coordinates of the model
CanvasTools == {"wire", "hadamard", "cnot"}
WireStartXs == {20}
ClickXs == {40, 100}
ClickYs == {100, 130}
MoveXs == {30, 220}

\* ToolPanel's onToolChange, then the effects on selectedTool and currentTool
SelectTool ==
  \E tool \in CanvasTools :
    /\ currentTool' = tool
    /\ drawingMode' = (IF tool = "wire" THEN "wire" ELSE "gate")
    /\ UNCHANGED <<isDrawing, currentStroke, canvasStrokes,
                   canvasGates, wireSnapPositions, pendingNotify, circuitStrokes>>
    /\ UNCHANGED runVars

handleMouseDown ==
  \E x \in (IF drawingMode = "wire" THEN WireStartXs ELSE ClickXs), y \in ClickYs :
    /\ UNCHANGED <<currentTool, drawingMode, canvasStrokes,
                   wireSnapPositions, circuitStrokes>>
    /\ UNCHANGED runVars
    /\ IF drawingMode = "wire"
       THEN /\ Len(canvasStrokes) < MaxWires
            /\ isDrawing' = TRUE
            /\ currentStroke' =
                 Some(Stroke(<<Point(x, snapToNearestWire(wireSnapPositions, y))>>,
                             "wire", "#FFFFFF", 3))
            /\ UNCHANGED <<canvasGates, pendingNotify>>
       ELSE LET nearestWireY == snapToNearestWire(wireSnapPositions, y)
            IN IF Abs(y - nearestWireY) < 20
               THEN /\ Len(canvasGates) < MaxCanvasGates
                    /\ Len(pendingNotify) < MaxPending
                    /\ canvasGates' =
                         Append(canvasGates,
                                CanvasGate(currentTool, Point(x, nearestWireY),
                                           ColorForTool(currentTool)))
                    /\ pendingNotify' =
                         Append(pendingNotify, CombinedStrokes(canvasStrokes, canvasGates))
                    /\ UNCHANGED <<isDrawing, currentStroke>>
               ELSE UNCHANGED <<isDrawing, currentStroke, canvasGates, pendingNotify>>

handleMouseMove ==
  \E x \in MoveXs, y \in ClickYs :
    /\ isDrawing /\ IsSome(currentStroke) /\ drawingMode = "wire"
    /\ Len(Get(currentStroke).points) < MaxWirePoints
    /\ currentStroke' =
         Some([Get(currentStroke) EXCEPT !.points =
                 Append(@, Point(x, @[1].y))])
    /\ UNCHANGED <<currentTool, drawingMode, isDrawing, canvasStrokes,
                   canvasGates, wireSnapPositions, pendingNotify, circuitStrokes>>
    /\ UNCHANGED runVars

\* the wire is long enough: sqrt(dx^2 + dy^2) >= 20
LongEnough(startPoint, endPoint) ==
  (endPoint.x - startPoint.x) * (endPoint.x - startPoint.x)
    + (endPoint.y - startPoint.y) * (endPoint.y - startPoint.y) >= 20 * 20

\* also the handler of onMouseLeave
handleMouseUp ==
  /\ isDrawing /\ IsSome(currentStroke)
  /\ isDrawing' = FALSE
  /\ currentStroke' = None
  /\ UNCHANGED <<currentTool, drawingMode, canvasGates, circuitStrokes>>
  /\ UNCHANGED runVars
  /\ LET stroke == Get(currentStroke)
     IN IF /\ drawingMode = "wire"
           /\ Len(stroke.points) >= 2
           /\ LongEnough(stroke.points[1], stroke.points[Len(stroke.points)])
        THEN /\ Len(pendingNotify) < MaxPending
             /\ canvasStrokes' = Append(canvasStrokes, stroke)
             /\ wireSnapPositions' =
                  (IF Includes(wireSnapPositions, stroke.points[1].y)
                   THEN wireSnapPositions
                   ELSE Append(wireSnapPositions, stroke.points[1].y))
             /\ pendingNotify' =
                  Append(pendingNotify, CombinedStrokes(canvasStrokes, canvasGates))
        ELSE UNCHANGED <<canvasStrokes, wireSnapPositions, pendingNotify>>

\* the Clear button
Clear ==
  /\ canvasStrokes' = << >>
  /\ canvasGates' = << >>
  /\ wireSnapPositions' = << >>
  /\ handleCircuitChange(<< >>)
  /\ UNCHANGED <<currentTool, drawingMode, isDrawing, currentStroke,
                 pendingNotify>>
  /\ UNCHANGED <<uiStateVector, probabilities, error>>

\* the function handed to setTimeout runs
RunTimeout ==
  /\ pendingNotify # << >>
  /\ pendingNotify' = Tail(pendingNotify)
  /\ handleCircuitChange(Head(pendingNotify))
  /\ UNCHANGED <<currentTool, drawingMode, isDrawing, currentStroke,
                 canvasStrokes, canvasGates, wireSnapPositions>>
  /\ UNCHANGED <<uiStateVector, probabilities, error>>

InitCanvas == IdleCanvas

NextCanvas ==
  \/ SelectTool /\ UNCHANGED <<simVars, valVars, recVars, snapVars, wireVars>>
  \/ handleMouseDown /\ UNCHANGED <<simVars, valVars, recVars, snapVars, wireVars>>
  \/ handleMouseMove /\ UNCHANGED <<simVars, valVars, recVars, snapVars, wireVars>>
  \/ handleMouseUp /\ UNCHANGED <<simVars, valVars, recVars, snapVars, wireVars>>
  \/ Clear /\ UNCHANGED <<simVars, valVars, recVars, snapVars, wireVars>>
  \/ RunTimeout /\ UNCHANGED <<simVars, valVars, recVars, snapVars, wireVars>>

InitCanvasFull == InitCanvas /\ IdleSim /\ IdleVal /\ IdleRun /\ IdleRec /\ IdleSnap /\ IdleWire

SpecCanvas == InitCanvasFull /\ [][NextCanvas]_vars

(***************************************************************************)
(* Wire snapping alone: the canvas's snapToNearestWire on wireSnapPositions *)
(* in any order, and the recognizer's loop on the same positions sorted,   *)
(* for a y on a wire, between two wires at equal and at unequal distance,  *)
(* at distance 19 and 20 from the nearest wire, and far from every wire.   *)
(***************************************************************************)
SnapWireYs == {100, 130, 160}

SnapYs == {80, 81, 100, 110, 115, 145, 180, 250}

SnapWireLists ==
  {w \in SeqsUpTo(SnapWireYs, MaxSnapWires) :
     \A i \in DOMAIN w : \A j \in DOMAIN w : w[i] = w[j] => i = j}

InitWire ==
  /\ snapWires \in SnapWireLists
  /\ snapY \in SnapYs
  /\ snapOut = None
  /\ targetOut = None

\* snapToNearestWire(y) with wireSnapPositions = snapWires
CallSnapToNearestWire ==
  /\ snapOut = None
  /\ snapOut' = Some(snapToNearestWire(snapWires, snapY))
  /\ UNCHANGED <<snapWires, snapY, targetOut>>

\* the recognizer's loop for a stroke whose first point has y = snapY, over
\* the sorted wirePositions
CallTargetQubit ==
  /\ targetOut = None
  /\ targetOut' = Some(TargetQubit(SortAsc(snapWires), Point(40, snapY)))
  /\ UNCHANGED <<snapWires, snapY, snapOut>>

NextWire ==
  \/ CallSnapToNearestWire
       /\ UNCHANGED <<simVars, valVars, runVars, recVars, canvasVars, snapVars>>
  \/ CallTargetQubit
       /\ UNCHANGED <<simVars, valVars, runVars, recVars, canvasVars, snapVars>>

InitWireFull ==
  InitWire /\ IdleSim /\ IdleVal /\ IdleRun /\ IdleRec /\ IdleCanvas /\ IdleSnap

SpecWire == InitWireFull /\ [][NextWire]_vars

\* the place in list of the entry closest to y, the first such place when
\* several entries are equally close
FirstClosest(list, y) ==
  CHOOSE i \in DOMAIN list :
    \A j \in DOMAIN list :
      \/ Abs(y - list[j]) > Abs(y - list[i])
      \/ Abs(y - list[j]) = Abs(y - list[i]) /\ j >= i

\* C30: wire snapping picks the wire closest to y and, when two wires are
\* equally close, the one met first in the list (for the recognizer, whose
\* list is sorted: the wire with the lower index); when no wire is nearer
\* than the threshold, or there is no wire, snapToNearestWire returns y.
C30_SnapPicksFirstClosest ==
  /\ IsSome(snapOut) =>
       IF snapWires = << >> THEN Get(snapOut) = snapY
       ELSE LET w == snapWires[FirstClosest(snapWires, snapY)]
            IN Get(snapOut) = IF Abs(snapY - w) < 20 THEN w ELSE snapY
  /\ IsSome(targetOut) =>
       LET sorted == SortAsc(snapWires)
       IN (\E i \in DOMAIN sorted : Abs(snapY - sorted[i]) < snapThreshold)
            => Get(targetOut) = FirstClosest(sorted, snapY) - 1

C30_Witness ==
  /\ snapWires = <<130, 100>>
  /\ snapY = 115
  /\ snapOut = Some(130)
  /\ targetOut = Some(0)

(***************************************************************************)
(* The page alone: onCircuitChange is called with any stroke list.         *)
(***************************************************************************)
PageAlphabet ==
  {WireStroke(100), WireStroke(130), GateStroke("hadamard", 40, 100),
   GateStroke("cnot", 40, 100), GateStroke("cnot", 40, 130)}

PageLists == SeqsUpTo(PageAlphabet, MaxPageStrokes)

\* onCircuitChange(strokeList): strokes is the list handed over
Notify ==
  \E strokeList \in PageLists :
    /\ strokes' = strokeList
    /\ handleCircuitChange(strokeList)
    /\ UNCHANGED <<uiStateVector, probabilities, error>>
    /\ UNCHANGED <<recCalled, recTwice, recOut, recFirst>>
    /\ UNCHANGED <<currentTool, drawingMode, isDrawing, currentStroke, canvasStrokes,
                   canvasGates, wireSnapPositions, pendingNotify>>

NextPage == Notify /\ UNCHANGED <<simVars, valVars, snapVars, wireVars>>

InitPageFull == IdleRun /\ IdleRec /\ IdleCanvas /\ IdleSim /\ IdleVal /\ IdleSnap /\ IdleWire

SpecPage == InitPageFull /\ [][NextPage]_vars

\* C16: in handleCircuitChange an empty stroke list sets the held circuit to
\* null, a recognized circuit that validateCircuit rejects leaves the held
\* circuit as it was, and otherwise the held circuit becomes the recognized
\* one; so the held circuit is always null or a circuit that validateCircuit
\* accepts.
C16_HeldCircuitPolicy ==
  /\ [](circuit = None \/ validateCircuit(Get(circuit)))
  /\ [][IF strokes' = << >> THEN circuit' = None
        ELSE IF validateCircuit(recognizeCircuit(strokes'))
             THEN circuit' = Some(recognizeCircuit(strokes'))
             ELSE circuit' = circuit]_vars

C16_Witness ==
  /\ strokes = <<WireStroke(130), WireStroke(100), GateStroke("hadamard", 40, 100)>>
  /\ IsSome(circuit)
  /\ validateCircuit(Get(circuit))
  /\ Get(circuit).qubits = 2
  /\ Len(Get(circuit).gates) = 1

\* C18: the stroke collection that the notification scheduled by an accepted
\* wire or a placed gate passes to onCircuitChange contains that wire or
\* gate, so once no notification is pending the page's circuit is the
\* recognition of the wires and gates the canvas holds.
C18_NotificationHoldsNewStroke ==
  /\ [][Len(pendingNotify') > Len(pendingNotify) =>
          pendingNotify'[Len(pendingNotify')]
            = CombinedStrokes(canvasStrokes', canvasGates')]_vars
  /\ []((/\ pendingNotify = << >>
         /\ CombinedStrokes(canvasStrokes, canvasGates) # << >>)
        => circuit = Some(recognizeCircuit(CombinedStrokes(canvasStrokes, canvasGates))))

\* C19: after Clear the canvas holds no strokes, no gates and no wire snap
\* positions and the page's circuit is null, and while the canvas stays
\* empty (no wire or gate added since) the circuit stays null: a
\* notification scheduled before the Clear installs no circuit after it.
C19_ClearedStaysNull ==
  (canvasStrokes = << >> /\ canvasGates = << >>)
    => (wireSnapPositions = << >> /\ circuit = None)

\* the positions in strokeList of the cnot points
CnotPoints(strokeList) ==
  {i \in DOMAIN strokeList :
     strokeList[i].tool = "cnot" /\ Len(strokeList[i].points) > 0}

\* C8: when two CNOT points were placed in the same time-column on two
\* different wires, the recognized circuit has a cnot gate whose control is
\* the wire clicked first and whose target is the wire clicked second,
\* whichever of the two wires is higher on the canvas.
C8_FirstClickedIsControl ==
  \A i \in DOMAIN circuitStrokes : \A j \in DOMAIN circuitStrokes :
    LET first == circuitStrokes[i].points[1]
        second == circuitStrokes[j].points[1]
    IN (/\ IsSome(circuit)
        /\ CnotPoints(circuitStrokes) = {i, j}
        /\ i < j
        /\ ColumnKey(first.x) = ColumnKey(second.x)
        /\ first.y # second.y
        /\ {first.y, second.y} \subseteq WireYs(circuitStrokes))
       => \E k \in DOMAIN Get(circuit).gates :
            LET g == Get(circuit).gates[k]
            IN /\ g.type = "cnot"
               /\ g.controls = Some(<<RankOfY(circuitStrokes, first.y)>>)
               /\ g.targets = <<RankOfY(circuitStrokes, second.y)>>

====
